---- MODULE Spec2Model ----
(***************************************************************************)
(* Model of package shutdown (partyzanex/shutdown): the Fifo, Lifo and     *)
(* Group closing strategies, the package functions over the default        *)
(* strategy, and the context helpers.  One strategy instance is modelled;  *)
(* its kind is fixed in the initial state.  Every goroutine the code       *)
(* starts is a process of the model: the caller of CloseContext (the       *)
(* orchestrator), the goroutine that runs a closer's Close, and, for       *)
(* Group, the goroutine that waits for it.                                 *)
(*                                                                         *)
(*   Spec      one CloseContext call on an instance                        *)
(*   SpecLive  the same under the scheduler's fairness                     *)
(*   SpecTwo   two successive calls on the same instance                   *)
(*   SpecReg   concurrent Append calls on an instance                      *)
(*   SpecPkg   Append, Close, CloseContext, CloseOnSignal and              *)
(*             CloseOnSignalContext of the package, from two callers       *)
(*   SpecCtx   ClosureToContext / ClosureFromContext                       *)
(***************************************************************************)
EXTENDS Integers, Sequences, FiniteSets, TLC

\* ---------------------------------------------------------------- bounds
MaxClosers == 3

Closers == 1..MaxClosers
\* The calls of CloseContext on the instance.  A second call is serialised
\* behind mx and walks the same list again.  Which of them are made is part
\* of the configuration chosen in the initial state (see ActiveCallers).
Callers == {1, 2}

\* ctx.Err() once ctx.Done() is closed; a closer c fails with the error c.
CtxErr == 0
\* the nil error; composite errors are sequences of their constituents.
Nil == << >>

VARIABLES
    kind,       \* "Fifo" | "Lifo" | "Group": which struct the instance is
    queue,      \* Fifo.queue / Lifo.stack / Group.closers
    mx,         \* the instance mutex: 0 when free, else the caller holding it
    pc,         \* pc[k]: position of caller k inside CloseContext
    ctx,        \* ctx[k]: "never" (context.Background), "armed", "fired"
    idx,        \* idx[k]: loop iterations completed by caller k
    errs,       \* errs[k]: the errs variable of caller k's CloseContext
    unit,       \* unit[k][c]: the goroutine calling c.Close() for call k
    outer,      \* outer[k][c]: Group's waiting goroutine for c in call k
    wg,         \* wg[k]: counter of Group's sync.WaitGroup in call k
    outcome,    \* outcome[k][c]: what c.Close() returned in call k
    result,     \* result[k]: the error returned by call k
    abandoned,  \* abandoned[k]: closer whose wait call k gave up on, or 0
    qAt,        \* qAt[k]: the registration list call k read
    finAtFire,  \* finAtFire[k]: closers whose Close had returned when ctx fired
    obsAtFire,  \* obsAtFire[k]: idx[k] at the moment ctx fired, -1 before
    errsAtWait, \* errsAtWait[k]: Group's errs when wg.Wait returned
    unfinAtRet, \* unfinAtRet[k]: closers whose Close was running at return
    invoked,    \* invoked[k][c]: times call k started c.Close()
    cfg,        \* which program is run: "inst", "two", "pkg"
    \* package level (pkgClosure is the instance above)
    mu,         \* the package mutex: 0 when free, else the caller holding it
    once,       \* the package sync.Once: TRUE when it has run
    pfn,        \* pfn[p]: the package function caller p called
    ppc,        \* ppc[p]: position of caller p inside that function
    pctx,       \* pctx[p]: the context caller p passed
    pres,       \* pres[p]: the error returned to caller p
    plog,       \* plog[p]: what caller p reported through the logger
    sig,        \* sig[p]: a watched signal was delivered to waiting caller p
    \* contexts (ClosureToContext / ClosureFromContext)
    chain,      \* a context: its values from the root context outwards
    got,        \* the last ClosureFromContext: the context given, the result
    \* concurrent Append calls
    apc,        \* apc[a]: position of the goroutine registering closer a
    atmp,       \* atmp[a]: the slice that goroutine read
    \* SetPackageClosure
    stash,      \* the entries of the strategies that were replaced
    nset        \* how many times SetPackageClosure was called

\* the strategy instance and the calls on it
inst == << kind, queue, mx, pc, ctx, idx, errs, unit, outer, wg, outcome,
           result, abandoned, qAt, finAtFire, obsAtFire, errsAtWait,
           unfinAtRet, invoked >>

\* the package-level state
pkgv == << mu, once, pfn, ppc, pctx, pres, plog, sig >>

\* everything the strategy's CloseContext leaves alone
ctxv == << chain, got >>
regv == << apc, atmp >>
setv == << stash, nset >>
rest == << ctxv, regv, setv >>
aux == << cfg, pkgv, rest >>

vars == << inst, aux >>

\* ---------------------------------------------------------------- helpers
Range(s) == { s[i] : i \in 1..Len(s) }

Reverse(s) == [ p \in 1..Len(s) |-> s[Len(s) + 1 - p] ]

Last(s) == s[Len(s)]

\* multierr.Append(left, right): nil operands vanish, the rest is flattened
\* in order.
MultierrAppend(left, right) ==
    IF left = Nil THEN right
    ELSE IF right = Nil THEN left
    ELSE left \o right

\* multierr.Combine(errors...): Append folded over the slice.
RECURSIVE MultierrCombine(_)
MultierrCombine(slice) ==
    IF slice = << >> THEN Nil
    ELSE MultierrAppend(MultierrCombine(SubSeq(slice, 1, Len(slice) - 1)),
                        << Last(slice) >>)

\* callClose: *errs = multierr.Append(*errs, err) when err != nil.
CallCloseOverwrite(e, c, failed) == IF failed THEN << c >> ELSE e
CallClosePrepend(e, c, failed) ==
    IF failed THEN MultierrAppend(<< c >>, e) ELSE e
CallClose(e, c, failed) == IF failed THEN MultierrAppend(e, << c >>) ELSE e

\* for _, closer := range f.queue
FifoWalkReversed(q) == Reverse(q)
FifoWalk(q) == q

\* for i := len(l.stack) - 1; i >= 0; i--
LifoWalkForward(q) == q
LifoWalk(q) == Reverse(q)

Walk(q) == IF kind = "Lifo" THEN LifoWalk(q) ELSE FifoWalk(q)

Sequential == kind \in {"Fifo", "Lifo"}

\* ---------------------------------------------------------------- Init
\* &Fifo{}, &Lifo{} or &Group{}: the zero value, and no call made yet.
InitInst ==
    /\ kind \in {"Fifo", "Lifo", "Group"}
    /\ queue = << >>
    /\ mx = 0
    /\ pc = [k \in Callers |-> "idle"]
    /\ ctx = [k \in Callers |-> "never"]
    /\ idx = [k \in Callers |-> 0]
    /\ errs = [k \in Callers |-> Nil]
    /\ unit = [k \in Callers |-> [c \in Closers |-> "none"]]
    /\ outer = [k \in Callers |-> [c \in Closers |-> "none"]]
    /\ wg = [k \in Callers |-> 0]
    /\ outcome = [k \in Callers |-> [c \in Closers |-> "none"]]
    /\ result = [k \in Callers |-> Nil]
    /\ abandoned = [k \in Callers |-> 0]
    /\ qAt = [k \in Callers |-> << >>]
    /\ finAtFire = [k \in Callers |-> {}]
    /\ obsAtFire = [k \in Callers |-> -1]
    /\ errsAtWait = [k \in Callers |-> Nil]
    /\ unfinAtRet = [k \in Callers |-> {}]
    /\ invoked = [k \in Callers |-> [c \in Closers |-> 0]]

\* var ( pkgClosure Closure = &Lifo{}; mu sync.Mutex; once sync.Once )
InitPkgVars ==
    /\ mu = 0
    /\ once = FALSE
    /\ pfn = [p \in Callers |-> "none"]
    /\ ppc = [p \in Callers |-> "idle"]
    /\ pctx = [p \in Callers |-> "never"]
    /\ pres = [p \in Callers |-> Nil]
    /\ plog = [p \in Callers |-> "none"]
    /\ sig = [p \in Callers |-> FALSE]

\* No context has been built and no Append is under way.
NoLookup == << >>
InitRest ==
    /\ chain = << >>
    /\ got = NoLookup
    /\ apc = [a \in Closers |-> "idle"]
    /\ atmp = [a \in Closers |-> << >>]
    /\ stash = << >>
    /\ nset = 0

\* One CloseContext call made directly on a strategy instance.

Init ==
    /\ InitInst
    /\ InitPkgVars
    /\ InitRest
    /\ cfg = "inst"

\* The callers that call CloseContext on the instance: one direct call, two
\* direct calls, or the calls made through the package functions, where
\* caller p's call is the one its once.Do runs.
ActiveCallers == IF cfg = "inst" THEN {1} ELSE Callers

MayBegin(k, c) ==
    /\ k \in ActiveCallers
    /\ cfg \in {"pkg", "set"} => ppc[k] = "once" /\ pctx[k] = c
    /\ cfg = "two" => c # "armed" /\ (k = 2 => pc[1] = "done")
    /\ cfg = "reg" => c = "never" /\ k = 1
    /\ cfg = "guard" => c = "never" /\ (k = 2 => pc[1] # "idle")

\* ---------------------------------------------------------------- Append
\* Fifo.Append / Lifo.Append / Group.Append: lock, append, unlock.
\* Closers are told apart by nothing but their identity, so they are
\* numbered in the order in which they are registered.
AppendCloser(c) ==
    /\ mx = 0
    /\ c = Len(queue) + Len(stash) + 1
    /\ queue' = Append(queue, c)
    /\ UNCHANGED << kind, mx, pc, ctx, idx, errs, unit, outer, wg, outcome,
                    result, abandoned, qAt, finAtFire, obsAtFire,
                    errsAtWait, unfinAtRet,
                    invoked >>
    /\ UNCHANGED aux

\* ------------------------------------------------------- the context
\* The caller's context fires (cancel or deadline) while the call runs.
Fire(k) ==
    /\ ctx[k] = "armed"
    /\ pc[k] \notin {"idle", "done"}
    /\ ctx' = [ctx EXCEPT ![k] = "fired"]
    /\ finAtFire' = [finAtFire EXCEPT ![k] =
                       { c \in Closers : unit[k][c] \in {"finished", "done"} }]
    /\ obsAtFire' = [obsAtFire EXCEPT ![k] = idx[k]]
    /\ UNCHANGED << kind, queue, mx, pc, idx, errs, unit, outer, wg, outcome,
                    result, abandoned, qAt, errsAtWait, unfinAtRet,
                    invoked >>
    /\ UNCHANGED aux

\* ------------------------------------------------- Fifo/Lifo CloseContext
\* mx.Lock(); var errs error.  Close() is the call with c = "never".
WalkBeginNoLock(k, c) ==
    /\ Sequential
    /\ MayBegin(k, c)
    /\ pc[k] = "idle"
    /\ pc' = [pc EXCEPT ![k] = "loop"]
    /\ ctx' = [ctx EXCEPT ![k] = c]
    /\ obsAtFire' = [obsAtFire EXCEPT ![k] = IF c = "fired" THEN 0 ELSE -1]
    /\ qAt' = [qAt EXCEPT ![k] = queue]
    /\ UNCHANGED << kind, queue, mx, idx, errs, unit, outer, wg, outcome,
                    result, abandoned, finAtFire, errsAtWait, unfinAtRet,
                    invoked >>
    /\ UNCHANGED aux

WalkBeginCheckCtx(k, c) ==
    /\ Sequential
    /\ MayBegin(k, c)
    /\ pc[k] = "idle"
    /\ mx = 0
    /\ ctx' = [ctx EXCEPT ![k] = c]
    /\ obsAtFire' = [obsAtFire EXCEPT ![k] = IF c = "fired" THEN 0 ELSE -1]
    /\ qAt' = [qAt EXCEPT ![k] = queue]
    /\ IF c = "fired"
       THEN /\ pc' = [pc EXCEPT ![k] = "done"]
            /\ result' = [result EXCEPT ![k] = << CtxErr >>]
            /\ mx' = mx
       ELSE /\ pc' = [pc EXCEPT ![k] = "loop"]
            /\ mx' = k
            /\ UNCHANGED result
    /\ UNCHANGED << kind, queue, idx, errs, unit, outer, wg, outcome,
                    abandoned, finAtFire, errsAtWait, unfinAtRet,
                    invoked >>
    /\ UNCHANGED aux

WalkBegin(k, c) ==
    /\ Sequential
    /\ MayBegin(k, c)
    /\ pc[k] = "idle"
    /\ mx = 0
    /\ mx' = k
    /\ pc' = [pc EXCEPT ![k] = "loop"]
    /\ ctx' = [ctx EXCEPT ![k] = c]
    /\ obsAtFire' = [obsAtFire EXCEPT ![k] = IF c = "fired" THEN 0 ELSE -1]
    /\ qAt' = [qAt EXCEPT ![k] = queue]
    /\ UNCHANGED << kind, queue, idx, errs, unit, outer, wg, outcome, result,
                    abandoned, finAtFire, errsAtWait, unfinAtRet,
                    invoked >>
    /\ UNCHANGED aux

\* next := make(chan struct{})
\* go func() { callClose(closer, &errs); close(next) }()
WalkIssueCheckFirst(k) ==
    /\ Sequential
    /\ pc[k] = "loop"
    /\ idx[k] < Len(queue)
    /\ IF ctx[k] = "fired"
       THEN /\ abandoned' = [abandoned EXCEPT ![k] = Walk(queue)[idx[k] + 1]]
            /\ result' = [result EXCEPT ![k] =
                            MultierrAppend(errs[k], << CtxErr >>)]
            /\ pc' = [pc EXCEPT ![k] = "done"]
            /\ mx' = 0
            /\ UNCHANGED << unit, invoked >>
       ELSE /\ unit' = [unit EXCEPT ![k][Walk(queue)[idx[k] + 1]] = "running"]
            /\ invoked' = [invoked EXCEPT ![k][Walk(queue)[idx[k] + 1]] = @ + 1]
            /\ pc' = [pc EXCEPT ![k] = "select"]
            /\ UNCHANGED << mx, result, abandoned >>
    /\ UNCHANGED << kind, queue, ctx, idx, errs, outer, wg, outcome, qAt,
                    finAtFire, obsAtFire, errsAtWait, unfinAtRet >>
    /\ UNCHANGED aux

WalkIssue(k) ==
    /\ Sequential
    /\ pc[k] = "loop"
    /\ idx[k] < Len(queue)
    /\ unit' = [unit EXCEPT ![k][Walk(queue)[idx[k] + 1]] = "running"]
    /\ invoked' = [invoked EXCEPT ![k][Walk(queue)[idx[k] + 1]] = @ + 1]
    /\ pc' = [pc EXCEPT ![k] = "select"]
    /\ UNCHANGED << kind, queue, mx, ctx, idx, errs, outer, wg, outcome,
                    result, abandoned, qAt, finAtFire, obsAtFire,
                    errsAtWait, unfinAtRet >>
    /\ UNCHANGED aux

\* select { case <-next: } : go round the loop.
WalkSelectNextStopOnFail(k) ==
    /\ Sequential
    /\ pc[k] = "select"
    /\ unit[k][Walk(queue)[idx[k] + 1]] = "done"
    /\ idx' = [idx EXCEPT ![k] =
                 IF outcome[k][Walk(queue)[idx[k] + 1]] = "fail"
                 THEN Len(queue) ELSE idx[k] + 1]
    /\ pc' = [pc EXCEPT ![k] = "loop"]
    /\ UNCHANGED << kind, queue, mx, ctx, errs, unit, outer, wg, outcome,
                    result, abandoned, qAt, finAtFire, obsAtFire,
                    errsAtWait, unfinAtRet,
                    invoked >>
    /\ UNCHANGED aux

WalkSelectNext(k) ==
    /\ Sequential
    /\ pc[k] = "select"
    /\ unit[k][Walk(queue)[idx[k] + 1]] = "done"
    /\ idx' = [idx EXCEPT ![k] = idx[k] + 1]
    /\ pc' = [pc EXCEPT ![k] = "loop"]
    /\ UNCHANGED << kind, queue, mx, ctx, errs, unit, outer, wg, outcome,
                    result, abandoned, qAt, finAtFire, obsAtFire,
                    errsAtWait, unfinAtRet,
                    invoked >>
    /\ UNCHANGED aux

\* select { case <-ctx.Done(): return multierr.Append(errs, ctx.Err()) }
\* errs is read without synchronisation with the goroutine in flight: the
\* read sees errs as it is before or after that goroutine's write.
WalkSelectCtxContinue(k) ==
    /\ Sequential
    /\ pc[k] = "select"
    /\ ctx[k] = "fired"
    /\ abandoned' = [abandoned EXCEPT ![k] = Walk(queue)[idx[k] + 1]]
    /\ idx' = [idx EXCEPT ![k] = idx[k] + 1]
    /\ pc' = [pc EXCEPT ![k] = "loop"]
    /\ UNCHANGED << kind, queue, mx, ctx, errs, unit, outer, wg, outcome,
                    result, qAt, finAtFire, obsAtFire,
                    errsAtWait, unfinAtRet,
                    invoked >>
    /\ UNCHANGED aux

WalkSelectCtxAfterClose(k) ==
    /\ Sequential
    /\ pc[k] = "select"
    /\ ctx[k] = "fired"
    /\ unit[k][Walk(queue)[idx[k] + 1]] # "running"
    /\ abandoned' = [abandoned EXCEPT ![k] = Walk(queue)[idx[k] + 1]]
    /\ result' = [result EXCEPT ![k] = MultierrAppend(errs[k], << CtxErr >>)]
    /\ pc' = [pc EXCEPT ![k] = "done"]
    /\ mx' = 0
    /\ unfinAtRet' = [unfinAtRet EXCEPT ![k] =
                        { c \in Closers : unit[k][c] = "running" }]
    /\ UNCHANGED << kind, queue, ctx, idx, errs, unit, outer, wg, outcome,
                    qAt, finAtFire, obsAtFire, errsAtWait,
                    invoked >>
    /\ UNCHANGED aux

WalkSelectCtxCancelUnit(k) ==
    /\ Sequential
    /\ pc[k] = "select"
    /\ ctx[k] = "fired"
    /\ abandoned' = [abandoned EXCEPT ![k] = Walk(queue)[idx[k] + 1]]
    /\ result' = [result EXCEPT ![k] = MultierrAppend(errs[k], << CtxErr >>)]
    /\ pc' = [pc EXCEPT ![k] = "done"]
    /\ mx' = 0
    /\ unit' = [unit EXCEPT ![k][Walk(queue)[idx[k] + 1]] =
                  IF @ = "running" THEN "none" ELSE @]
    /\ unfinAtRet' = [unfinAtRet EXCEPT ![k] =
                        { c \in Closers : unit[k][c] = "running" }]
    /\ UNCHANGED << kind, queue, ctx, idx, errs, outer, wg, outcome,
                    qAt, finAtFire, obsAtFire, errsAtWait,
                    invoked >>
    /\ UNCHANGED aux

WalkSelectCtx(k) ==
    /\ Sequential
    /\ pc[k] = "select"
    /\ ctx[k] = "fired"
    /\ abandoned' = [abandoned EXCEPT ![k] = Walk(queue)[idx[k] + 1]]
    /\ result' = [result EXCEPT ![k] = MultierrAppend(errs[k], << CtxErr >>)]
    /\ pc' = [pc EXCEPT ![k] = "done"]
    /\ mx' = 0
    /\ unfinAtRet' = [unfinAtRet EXCEPT ![k] =
                        { c \in Closers : unit[k][c] = "running" }]
    /\ UNCHANGED << kind, queue, ctx, idx, errs, unit, outer, wg, outcome,
                    qAt, finAtFire, obsAtFire, errsAtWait,
                    invoked >>
    /\ UNCHANGED aux

\* return errs, after the loop
WalkReturnCheckCtx(k) ==
    /\ Sequential
    /\ pc[k] = "loop"
    /\ idx[k] = Len(queue)
    /\ result' = [result EXCEPT ![k] =
                    IF ctx[k] = "fired"
                    THEN MultierrAppend(errs[k], << CtxErr >>)
                    ELSE errs[k]]
    /\ pc' = [pc EXCEPT ![k] = "done"]
    /\ mx' = 0
    /\ unfinAtRet' = [unfinAtRet EXCEPT ![k] =
                        { c \in Closers : unit[k][c] = "running" }]
    /\ UNCHANGED << kind, queue, ctx, idx, errs, unit, outer, wg, outcome,
                    abandoned, qAt, finAtFire, obsAtFire, errsAtWait,
                    invoked >>
    /\ UNCHANGED aux

WalkReturnDrain(k) ==
    /\ Sequential
    /\ pc[k] = "loop"
    /\ idx[k] = Len(queue)
    /\ result' = [result EXCEPT ![k] = errs[k]]
    /\ pc' = [pc EXCEPT ![k] = "done"]
    /\ mx' = 0
    /\ queue' = << >>
    /\ unfinAtRet' = [unfinAtRet EXCEPT ![k] =
                        { c \in Closers : unit[k][c] = "running" }]
    /\ UNCHANGED << kind, ctx, idx, errs, unit, outer, wg, outcome,
                    abandoned, qAt, finAtFire, obsAtFire, errsAtWait,
                    invoked >>
    /\ UNCHANGED aux

WalkReturn(k) ==
    /\ Sequential
    /\ pc[k] = "loop"
    /\ idx[k] = Len(queue)
    /\ result' = [result EXCEPT ![k] = errs[k]]
    /\ pc' = [pc EXCEPT ![k] = "done"]
    /\ mx' = 0
    /\ unfinAtRet' = [unfinAtRet EXCEPT ![k] =
                        { c \in Closers : unit[k][c] = "running" }]
    /\ UNCHANGED << kind, queue, ctx, idx, errs, unit, outer, wg, outcome,
                    abandoned, qAt, finAtFire, obsAtFire, errsAtWait,
                    invoked >>
    /\ UNCHANGED aux

\* The goroutine: closer.Close() returns, callClose records its error.
UnitFinish(k, c, failed) ==
    /\ Sequential
    /\ unit[k][c] = "running"
    /\ unit' = [unit EXCEPT ![k][c] = "finished"]
    /\ outcome' = [outcome EXCEPT ![k][c] = IF failed THEN "fail" ELSE "ok"]
    /\ errs' = [errs EXCEPT ![k] = CallClose(errs[k], c, failed)]
    /\ UNCHANGED << kind, queue, mx, pc, ctx, idx, outer, wg, result,
                    abandoned, qAt, finAtFire, obsAtFire,
                    errsAtWait, unfinAtRet,
                    invoked >>
    /\ UNCHANGED aux

\* The goroutine: close(next) / close(done).
UnitSignal(k, c) ==
    /\ unit[k][c] = "finished"
    /\ unit' = [unit EXCEPT ![k][c] = "done"]
    /\ UNCHANGED << kind, queue, mx, pc, ctx, idx, errs, outer, wg, outcome,
                    result, abandoned, qAt, finAtFire, obsAtFire,
                    errsAtWait, unfinAtRet,
                    invoked >>
    /\ UNCHANGED aux

\* --------------------------------------------------- Group CloseContext
\* g.mx.Lock(); errs = make([]error, 0, len(g.closers)); wg.Add(len(g.closers))
GroupBeginUnlockBeforeWait(k, c) ==
    /\ kind = "Group"
    /\ MayBegin(k, c)
    /\ pc[k] = "idle"
    /\ mx = 0
    /\ pc' = [pc EXCEPT ![k] = "spawn"]
    /\ ctx' = [ctx EXCEPT ![k] = c]
    /\ obsAtFire' = [obsAtFire EXCEPT ![k] = IF c = "fired" THEN 0 ELSE -1]
    /\ qAt' = [qAt EXCEPT ![k] = queue]
    /\ wg' = [wg EXCEPT ![k] = Len(queue)]
    /\ UNCHANGED << kind, queue, mx, idx, errs, unit, outer, outcome, result,
                    abandoned, finAtFire, errsAtWait, unfinAtRet,
                    invoked >>
    /\ UNCHANGED aux

GroupBegin(k, c) ==
    /\ kind = "Group"
    /\ MayBegin(k, c)
    /\ pc[k] = "idle"
    /\ mx = 0
    /\ mx' = k
    /\ pc' = [pc EXCEPT ![k] = "spawn"]
    /\ ctx' = [ctx EXCEPT ![k] = c]
    /\ obsAtFire' = [obsAtFire EXCEPT ![k] = IF c = "fired" THEN 0 ELSE -1]
    /\ qAt' = [qAt EXCEPT ![k] = queue]
    /\ wg' = [wg EXCEPT ![k] = Len(queue)]
    /\ UNCHANGED << kind, queue, idx, errs, unit, outer, outcome, result,
                    abandoned, finAtFire, errsAtWait, unfinAtRet,
                    invoked >>
    /\ UNCHANGED aux

\* for _, closer := range g.closers { go func(c Closer) {...}(closer) }
\* The loop starts the goroutine and moves on: nothing is waited for here.
GroupSpawnOneAtATime(k) ==
    /\ kind = "Group"
    /\ pc[k] = "spawn"
    /\ idx[k] < Len(queue)
    /\ idx[k] > 0 => unit[k][queue[idx[k]]] = "done"
    /\ outer' = [outer EXCEPT ![k][queue[idx[k] + 1]] = "spawned"]
    /\ idx' = [idx EXCEPT ![k] = idx[k] + 1]
    /\ UNCHANGED << kind, queue, mx, pc, ctx, errs, unit, wg, outcome, result,
                    abandoned, qAt, finAtFire, obsAtFire,
                    errsAtWait, unfinAtRet,
                    invoked >>
    /\ UNCHANGED aux

GroupSpawn(k) ==
    /\ kind = "Group"
    /\ pc[k] = "spawn"
    /\ idx[k] < Len(queue)
    /\ outer' = [outer EXCEPT ![k][queue[idx[k] + 1]] = "spawned"]
    /\ idx' = [idx EXCEPT ![k] = idx[k] + 1]
    /\ UNCHANGED << kind, queue, mx, pc, ctx, errs, unit, wg, outcome, result,
                    abandoned, qAt, finAtFire, obsAtFire,
                    errsAtWait, unfinAtRet,
                    invoked >>
    /\ UNCHANGED aux

\* The waiting goroutine starts: done := make(chan struct{}); go func() {
\* c.Close() ... }() and it enters its select.
OuterStart(k, c) ==
    /\ outer[k][c] = "spawned"
    /\ outer' = [outer EXCEPT ![k][c] = "waiting"]
    /\ unit' = [unit EXCEPT ![k][c] = "running"]
    /\ invoked' = [invoked EXCEPT ![k][c] = @ + 1]
    /\ UNCHANGED << kind, queue, mx, pc, ctx, idx, errs, wg, outcome, result,
                    abandoned, qAt, finAtFire, obsAtFire,
                    errsAtWait, unfinAtRet >>
    /\ UNCHANGED aux

\* select { case <-done: }; wg.Done()
OuterSelectDone(k, c) ==
    /\ outer[k][c] = "waiting"
    /\ unit[k][c] = "done"
    /\ outer' = [outer EXCEPT ![k][c] = "resolved"]
    /\ wg' = [wg EXCEPT ![k] = wg[k] - 1]
    /\ UNCHANGED << kind, queue, mx, pc, ctx, idx, errs, unit, outcome, result,
                    abandoned, qAt, finAtFire, obsAtFire,
                    errsAtWait, unfinAtRet,
                    invoked >>
    /\ UNCHANGED aux

\* select { case <-ctx.Done(): }; wg.Done()
OuterSelectCtx(k, c) ==
    /\ outer[k][c] = "waiting"
    /\ ctx[k] = "fired"
    /\ outer' = [outer EXCEPT ![k][c] = "resolved"]
    /\ wg' = [wg EXCEPT ![k] = wg[k] - 1]
    /\ UNCHANGED << kind, queue, mx, pc, ctx, idx, errs, unit, outcome, result,
                    abandoned, qAt, finAtFire, obsAtFire,
                    errsAtWait, unfinAtRet,
                    invoked >>
    /\ UNCHANGED aux

\* The closing goroutine: c.Close() returns; if err != nil { mx.Lock();
\* errs = append(errs, err); mx.Unlock() }.  The local mx is held for the
\* append alone, so the append is one step.
GroupRecord(e, c, failed) == IF failed THEN Append(e, c) ELSE e

InnerFinish(k, c, failed) ==
    /\ kind = "Group"
    /\ unit[k][c] = "running"
    /\ unit' = [unit EXCEPT ![k][c] = "finished"]
    /\ outcome' = [outcome EXCEPT ![k][c] = IF failed THEN "fail" ELSE "ok"]
    /\ errs' = [errs EXCEPT ![k] = GroupRecord(errs[k], c, failed)]
    /\ UNCHANGED << kind, queue, mx, pc, ctx, idx, outer, wg, result,
                    abandoned, qAt, finAtFire, obsAtFire,
                    errsAtWait, unfinAtRet,
                    invoked >>
    /\ UNCHANGED aux

\* wg.Wait() returns when the counter is zero.
GroupWaitNoWait(k) ==
    /\ kind = "Group"
    /\ pc[k] = "spawn"
    /\ idx[k] = Len(queue)
    /\ pc' = [pc EXCEPT ![k] = "combine"]
    /\ errsAtWait' = [errsAtWait EXCEPT ![k] = errs[k]]
    /\ UNCHANGED << kind, queue, mx, ctx, idx, errs, unit, outer, wg, outcome,
                    result, abandoned, qAt, finAtFire, obsAtFire, unfinAtRet,
                    invoked >>
    /\ UNCHANGED aux

GroupWait(k) ==
    /\ kind = "Group"
    /\ pc[k] = "spawn"
    /\ idx[k] = Len(queue)
    /\ wg[k] = 0
    /\ pc' = [pc EXCEPT ![k] = "combine"]
    /\ errsAtWait' = [errsAtWait EXCEPT ![k] = errs[k]]
    /\ UNCHANGED << kind, queue, mx, ctx, idx, errs, unit, outer, wg, outcome,
                    result, abandoned, qAt, finAtFire, obsAtFire, unfinAtRet,
                    invoked >>
    /\ UNCHANGED aux

\* return multierr.Combine(errs...): errs is read without the local mx, so
\* the read sees the slice before or after a closing goroutine's append.
GroupReturnWithCtxErr(k) ==
    /\ kind = "Group"
    /\ pc[k] = "combine"
    /\ result' = [result EXCEPT ![k] =
                    IF ctx[k] = "fired"
                    THEN MultierrAppend(MultierrCombine(errs[k]), << CtxErr >>)
                    ELSE MultierrCombine(errs[k])]
    /\ pc' = [pc EXCEPT ![k] = "done"]
    /\ mx' = 0
    /\ unfinAtRet' = [unfinAtRet EXCEPT ![k] =
                        { c \in Closers : unit[k][c] = "running" }]
    /\ UNCHANGED << kind, queue, ctx, idx, errs, unit, outer, wg, outcome,
                    abandoned, qAt, finAtFire, obsAtFire, errsAtWait,
                    invoked >>
    /\ UNCHANGED aux

GroupReturnDropOnCancel(k) ==
    /\ kind = "Group"
    /\ pc[k] = "combine"
    /\ result' = [result EXCEPT ![k] =
                    IF ctx[k] = "fired" THEN Nil ELSE MultierrCombine(errs[k])]
    /\ pc' = [pc EXCEPT ![k] = "done"]
    /\ mx' = 0
    /\ unfinAtRet' = [unfinAtRet EXCEPT ![k] =
                        { c \in Closers : unit[k][c] = "running" }]
    /\ UNCHANGED << kind, queue, ctx, idx, errs, unit, outer, wg, outcome,
                    abandoned, qAt, finAtFire, obsAtFire, errsAtWait,
                    invoked >>
    /\ UNCHANGED aux

GroupReturn(k) ==
    /\ kind = "Group"
    /\ pc[k] = "combine"
    /\ result' = [result EXCEPT ![k] = MultierrCombine(errs[k])]
    /\ pc' = [pc EXCEPT ![k] = "done"]
    /\ mx' = 0
    /\ unfinAtRet' = [unfinAtRet EXCEPT ![k] =
                        { c \in Closers : unit[k][c] = "running" }]
    /\ UNCHANGED << kind, queue, ctx, idx, errs, unit, outer, wg, outcome,
                    abandoned, qAt, finAtFire, obsAtFire, errsAtWait,
                    invoked >>
    /\ UNCHANGED aux

Next ==
    \/ \E c \in Closers : AppendCloser(c)
    \/ \E k \in Callers : Fire(k)
    \/ \E k \in Callers, c \in {"never", "armed", "fired"} : WalkBegin(k, c)
    \/ \E k \in Callers : WalkIssue(k)
    \/ \E k \in Callers : WalkSelectNext(k)
    \/ \E k \in Callers : WalkSelectCtx(k)
    \/ \E k \in Callers : WalkReturn(k)
    \/ \E k \in Callers, c \in Closers, f \in BOOLEAN : UnitFinish(k, c, f)
    \/ \E k \in Callers, c \in Closers : UnitSignal(k, c)
    \/ \E k \in Callers, c \in {"never", "armed", "fired"} : GroupBegin(k, c)
    \/ \E k \in Callers : GroupSpawn(k)
    \/ \E k \in Callers, c \in Closers : OuterStart(k, c)
    \/ \E k \in Callers, c \in Closers : OuterSelectDone(k, c)
    \/ \E k \in Callers, c \in Closers : OuterSelectCtx(k, c)
    \/ \E k \in Callers, c \in Closers, f \in BOOLEAN : InnerFinish(k, c, f)
    \/ \E k \in Callers : GroupWait(k)
    \/ \E k \in Callers : GroupReturn(k)

Spec == Init /\ [][Next]_vars

\* The Go scheduler runs every goroutine that can take a step: the caller of
\* CloseContext, the goroutines it started, a select with a ready case.
\* Nothing makes a closer's Close return, a context fire or anyone call
\* Append or CloseContext.
LiveCallers == {1}
Fairness ==
    /\ \A k \in LiveCallers :
           /\ WF_vars(WalkIssue(k))
           /\ WF_vars(WalkSelectNext(k))
           /\ WF_vars(WalkSelectCtx(k))
           /\ WF_vars(WalkReturn(k))
           /\ WF_vars(GroupSpawn(k))
           /\ WF_vars(GroupWait(k))
           /\ WF_vars(GroupReturn(k))
    /\ \A k \in LiveCallers, c \in Closers :
           /\ WF_vars(UnitSignal(k, c))
           /\ WF_vars(OuterStart(k, c))
           /\ WF_vars(OuterSelectDone(k, c))
           /\ WF_vars(OuterSelectCtx(k, c))

\* Whether CloseContext returns does not depend on what a Close returns: here
\* a Close returns nil or does not return.
NextLive ==
    \/ \E c \in Closers : AppendCloser(c)
    \/ \E k \in Callers : Fire(k)
    \/ \E k \in Callers, c \in {"never", "armed", "fired"} : WalkBegin(k, c)
    \/ \E k \in Callers : WalkIssue(k)
    \/ \E k \in Callers : WalkSelectNext(k)
    \/ \E k \in Callers : WalkSelectCtx(k)
    \/ \E k \in Callers : WalkReturn(k)
    \/ \E k \in Callers, c \in Closers : UnitFinish(k, c, FALSE)
    \/ \E k \in Callers, c \in Closers : UnitSignal(k, c)
    \/ \E k \in Callers, c \in {"never", "armed", "fired"} : GroupBegin(k, c)
    \/ \E k \in Callers : GroupSpawn(k)
    \/ \E k \in Callers, c \in Closers : OuterStart(k, c)
    \/ \E k \in Callers, c \in Closers : OuterSelectDone(k, c)
    \/ \E k \in Callers, c \in Closers : OuterSelectCtx(k, c)
    \/ \E k \in Callers, c \in Closers : InnerFinish(k, c, FALSE)
    \/ \E k \in Callers : GroupWait(k)
    \/ \E k \in Callers : GroupReturn(k)

SpecLive == Init /\ [][NextLive]_vars /\ Fairness

\* Two calls on the same instance, the second made after the first has
\* returned (mx makes a concurrent one wait until then).  Each is Close()
\* or, on a Fifo or Lifo, CloseContext on a context that is already done.
InitTwo ==
    /\ InitInst
    /\ InitPkgVars
    /\ InitRest
    /\ cfg = "two"

NextTwo ==
    \/ \E c \in Closers : AppendCloser(c)
    \/ \E k \in Callers, c \in {"never", "fired"} : WalkBegin(k, c)
    \/ \E k \in Callers : WalkIssue(k)
    \/ \E k \in Callers : WalkSelectNext(k)
    \/ \E k \in Callers : WalkSelectCtx(k)
    \/ \E k \in Callers : WalkReturn(k)
    \/ \E k \in Callers, c \in Closers, f \in BOOLEAN : UnitFinish(k, c, f)
    \/ \E k \in Callers, c \in Closers : UnitSignal(k, c)
    \/ \E k \in Callers : GroupBegin(k, "never")
    \/ \E k \in Callers : GroupSpawn(k)
    \/ \E k \in Callers, c \in Closers : OuterStart(k, c)
    \/ \E k \in Callers, c \in Closers : OuterSelectDone(k, c)
    \/ \E k \in Callers, c \in Closers, f \in BOOLEAN : InnerFinish(k, c, f)
    \/ \E k \in Callers : GroupWait(k)
    \/ \E k \in Callers : GroupReturn(k)

SpecTwo == InitTwo /\ [][NextTwo]_vars

\* ------------------------------------------------------ package functions
\* The context a package function is called with: Close and CloseOnSignal
\* pass or take none (context.Background for the close).
PkgFunctions == {"Close", "CloseContext", "CloseOnSignal",
                 "CloseOnSignalContext"}
CtxChoices(fn) ==
    IF fn \in {"Close", "CloseOnSignal"} THEN {"never"}
    ELSE {"never", "armed", "fired"}

\* Append(closer): mu.Lock(); pkgClosure.Append(closer); mu.Unlock()
PkgAppend(c) ==
    /\ cfg \in {"pkg", "set"}
    /\ mu = 0
    /\ AppendCloser(c)

\* Caller p calls Close, CloseContext, CloseOnSignal or CloseOnSignalContext.
\* The first two go straight for mu; the other two first wait for a signal
\* (signal.Notify / signal.NotifyContext is in place from here on).
PkgCall(p, fn, c) ==
    /\ cfg \in {"pkg", "set"}
    /\ ppc[p] = "idle"
    /\ c \in CtxChoices(fn)
    /\ pfn' = [pfn EXCEPT ![p] = fn]
    /\ pctx' = [pctx EXCEPT ![p] = c]
    /\ ppc' = [ppc EXCEPT ![p] =
                 IF fn \in {"Close", "CloseContext"} THEN "lock" ELSE "wait"]
    /\ UNCHANGED << mu, once, pres, plog, sig, cfg, inst, rest >>

\* The context of caller p fires before its close call reached the strategy.
PkgFire(p) ==
    /\ ppc[p] \in {"wait", "lock"}
    /\ pctx[p] = "armed"
    /\ pctx' = [pctx EXCEPT ![p] = "fired"]
    /\ UNCHANGED << mu, once, pfn, ppc, pres, plog, sig, cfg, inst, rest >>

\* The operating system delivers a watched signal: every caller waiting in
\* WaitForSignals / WaitForSignalsContext gets it.
SignalDeliver ==
    /\ \E p \in Callers : ppc[p] = "wait" /\ ~sig[p]
    /\ sig' = [p \in Callers |-> sig[p] \/ ppc[p] = "wait"]
    /\ UNCHANGED << mu, once, pfn, ppc, pctx, pres, plog, cfg, inst, rest >>

\* WaitForSignals: logger.Msgf("Received signal: %s", <-c), and
\* WaitForSignalsContext when sigCtx is done because of the signal; then
\* CloseOnSignal / CloseOnSignalContext go on to Close() / CloseContext(ctx).
PkgWaitSignalNoWait(p) ==
    /\ ppc[p] = "wait"
    /\ plog' = [plog EXCEPT ![p] = "signal"]
    /\ ppc' = [ppc EXCEPT ![p] = "lock"]
    /\ UNCHANGED << mu, once, pfn, pctx, pres, sig, cfg, inst, rest >>

PkgWaitSignal(p) ==
    /\ ppc[p] = "wait"
    /\ sig[p]
    /\ plog' = [plog EXCEPT ![p] = "signal"]
    /\ ppc' = [ppc EXCEPT ![p] = "lock"]
    /\ UNCHANGED << mu, once, pfn, pctx, pres, sig, cfg, inst, rest >>

\* WaitForSignalsContext: <-sigCtx.Done() because the parent context is done;
\* logger.Msgf("Received signal: %s", sigCtx.Err()).
PkgWaitCtx(p) ==
    /\ ppc[p] = "wait"
    /\ pfn[p] = "CloseOnSignalContext"
    /\ pctx[p] = "fired"
    /\ plog' = [plog EXCEPT ![p] = "ctx"]
    /\ ppc' = [ppc EXCEPT ![p] = "lock"]
    /\ UNCHANGED << mu, once, pfn, pctx, pres, sig, cfg, inst, rest >>

\* CloseContext: mu.Lock(); var err error; once.Do(func() { err =
\* pkgClosure.CloseContext(ctx) }) when the Once has not run: the strategy's
\* CloseContext is called (WalkBegin / GroupBegin of caller p follow).
PkgOnceDoEveryTime(p) ==
    /\ ppc[p] = "lock"
    /\ mu = 0
    /\ mu' = p
    /\ ppc' = [ppc EXCEPT ![p] = "once"]
    /\ UNCHANGED << once, pfn, pctx, pres, plog, sig, cfg, inst, rest >>

PkgOnceDoWhileUnclosed(p) ==
    /\ ppc[p] = "lock"
    /\ mu = 0
    /\ ~once \/ \E c \in Range(queue) : invoked[1][c] + invoked[2][c] = 0
    /\ mu' = p
    /\ ppc' = [ppc EXCEPT ![p] = "once"]
    /\ UNCHANGED << once, pfn, pctx, pres, plog, sig, cfg, inst, rest >>

PkgOnceDoUnlocked(p) ==
    /\ ppc[p] = "lock"
    /\ mu = 0
    /\ ~once
    /\ ppc' = [ppc EXCEPT ![p] = "once"]
    /\ UNCHANGED << mu, once, pfn, pctx, pres, plog, sig, cfg, inst, rest >>

PkgOnceDo(p) ==
    /\ ppc[p] = "lock"
    /\ mu = 0
    /\ ~once
    /\ mu' = p
    /\ ppc' = [ppc EXCEPT ![p] = "once"]
    /\ UNCHANGED << once, pfn, pctx, pres, plog, sig, cfg, inst, rest >>

\* CloseContext when the Once has run: once.Do does nothing, err is still
\* nil; return err; mu.Unlock().
PkgOnceSkip(p) ==
    /\ ppc[p] = "lock"
    /\ mu = 0
    /\ once
    /\ pres' = [pres EXCEPT ![p] = Nil]
    /\ ppc' = [ppc EXCEPT ![p] = "done"]
    /\ UNCHANGED << mu, once, pfn, pctx, plog, sig, cfg, inst, rest >>

\* The strategy's CloseContext returned: the Once is done, return err,
\* mu.Unlock().
PkgOnceReturn(p) ==
    /\ ppc[p] = "once"
    /\ pc[p] = "done"
    /\ once' = TRUE
    /\ pres' = [pres EXCEPT ![p] = result[p]]
    /\ mu' = 0
    /\ ppc' = [ppc EXCEPT ![p] = "done"]
    /\ UNCHANGED << pfn, pctx, plog, sig, cfg, inst, rest >>

\* The steps of a sequential strategy's CloseContext and of its close units.
WalkSteps ==
    \/ \E k \in Callers : Fire(k)
    \/ \E k \in Callers, c \in {"never", "armed", "fired"} : WalkBegin(k, c)
    \/ \E k \in Callers : WalkIssue(k)
    \/ \E k \in Callers : WalkSelectNext(k)
    \/ \E k \in Callers : WalkSelectCtx(k)
    \/ \E k \in Callers : WalkReturn(k)
    \/ \E k \in Callers, c \in Closers, f \in BOOLEAN : UnitFinish(k, c, f)
    \/ \E k \in Callers, c \in Closers : UnitSignal(k, c)

\* The package functions called by two callers on the default strategy:
\* var pkgClosure Closure = &Lifo{}.
InitPkg ==
    /\ InitInst
    /\ kind = "Lifo"
    /\ InitPkgVars
    /\ InitRest
    /\ cfg = "pkg"

NextPkg ==
    \/ \E c \in Closers : PkgAppend(c)
    \/ \E p \in Callers, fn \in PkgFunctions, c \in {"never", "armed", "fired"} :
           PkgCall(p, fn, c)
    \/ \E p \in Callers : PkgFire(p)
    \/ SignalDeliver
    \/ \E p \in Callers : PkgWaitSignal(p)
    \/ \E p \in Callers : PkgWaitCtx(p)
    \/ \E p \in Callers : PkgOnceDo(p)
    \/ \E p \in Callers : PkgOnceSkip(p)
    \/ \E p \in Callers : PkgOnceReturn(p)
    \/ WalkSteps

SpecPkg == InitPkg /\ [][NextPkg]_vars

\* ------------------------------------------------------------- contexts
\* A context.Context is the list of what was layered on context.Background:
\* a value under some key (context.WithValue) or a cancellation
\* (context.WithCancel / WithTimeout), innermost last.
MaxDepth == 3

\* Strategy instances: two of each type, equal only to themselves.
Instances == {"Fifo", "Lifo", "Group"} \X {1, 2}
NilClosure == << >>

\* ctxKey{} is the package's private key; no other package can use it.
Frames ==
    [key : {"ctxKey"}, val : Instances \cup {NilClosure}]
        \cup [key : {"other"}, val : {<< "Fifo", 1 >>}]
        \cup [key : {"cancel"}, val : {NilClosure}]

\* ctx.Value(key): the value of the innermost layer with that key, nil if
\* there is none.
RECURSIVE ValueFromRoot(_, _)
ValueFromRoot(ch, key) ==
    IF ch = << >> THEN NilClosure
    ELSE IF Head(ch).key = key THEN Head(ch).val
         ELSE ValueFromRoot(Tail(ch), key)

RECURSIVE Value(_, _)
Value(ch, key) ==
    IF ch = << >> THEN NilClosure
    ELSE IF Last(ch).key = key THEN Last(ch).val
         ELSE Value(SubSeq(ch, 1, Len(ch) - 1), key)

\* return context.WithValue(ctx, ctxKey{}, closure)
ClosureToContext(ch, closure) ==
    Append(ch, [key |-> "ctxKey", val |-> closure])

\* closure, ok := ctx.Value(ctxKey{}).(Closure): the assertion fails on nil.
ClosureFromContext(ch) ==
    LET v == Value(ch, "ctxKey")
    IN  IF v \in Instances THEN << v, TRUE >> ELSE << NilClosure, FALSE >>

\* ClosureToContext(ctx, s), s.WithContext(ctx)
CtxAttach(s) ==
    /\ cfg = "ctx"
    /\ Len(chain) < MaxDepth
    /\ chain' = ClosureToContext(chain, s)
    /\ UNCHANGED << got, regv, setv, pkgv, cfg, inst >>

\* A descendant made without this package: another key's value, or a
\* cancellable child.
CtxDerive(f) ==
    /\ cfg = "ctx"
    /\ Len(chain) < MaxDepth
    /\ f.key # "ctxKey"
    /\ chain' = Append(chain, f)
    /\ UNCHANGED << got, regv, setv, pkgv, cfg, inst >>

\* ClosureFromContext(ctx)
CtxLookup ==
    /\ cfg = "ctx"
    /\ got' = [on |-> chain, res |-> ClosureFromContext(chain)]
    /\ UNCHANGED << chain, regv, setv, pkgv, cfg, inst >>

InitCtx ==
    /\ InitInst
    /\ InitPkgVars
    /\ InitRest
    /\ cfg = "ctx"

NextCtx ==
    \/ \E s \in Instances \cup {NilClosure} : CtxAttach(s)
    \/ \E f \in Frames : CtxDerive(f)
    \/ CtxLookup

SpecCtx == InitCtx /\ [][NextCtx]_vars

\* ------------------------------------------------- concurrent registration
\* Goroutine a calls Append(closer a) on the instance.  mx is held by a
\* registering goroutine as -a, by a closing caller k as k.
\* l.mx.Lock()
RegLockNoLock(a) ==
    /\ cfg \in {"reg", "guard"}
    /\ apc[a] = "idle"
    /\ apc' = [apc EXCEPT ![a] = "locked"]
    /\ UNCHANGED << atmp, ctxv, setv, pkgv, cfg, inst >>

RegLock(a) ==
    /\ cfg \in {"reg", "guard"}
    /\ apc[a] = "idle"
    /\ mx = 0
    /\ mx' = 0 - a
    /\ apc' = [apc EXCEPT ![a] = "locked"]
    /\ UNCHANGED << atmp, ctxv, setv, pkgv, cfg >>
    /\ UNCHANGED << kind, queue, pc, ctx, idx, errs, unit, outer, wg, outcome,
                    result, abandoned, qAt, finAtFire, obsAtFire,
                    errsAtWait, unfinAtRet, invoked >>

\* append(l.queue, closer) reads the slice ...
RegRead(a) ==
    /\ apc[a] = "locked"
    /\ atmp' = [atmp EXCEPT ![a] = queue]
    /\ apc' = [apc EXCEPT ![a] = "read"]
    /\ UNCHANGED << ctxv, setv, pkgv, cfg, inst >>

\* ... and l.queue = ... stores the longer one.
RegWrite(a) ==
    /\ apc[a] = "read"
    /\ queue' = Append(atmp[a], a)
    /\ apc' = [apc EXCEPT ![a] = "written"]
    /\ UNCHANGED << atmp, ctxv, setv, pkgv, cfg >>
    /\ UNCHANGED << kind, mx, pc, ctx, idx, errs, unit, outer, wg, outcome,
                    result, abandoned, qAt, finAtFire, obsAtFire,
                    errsAtWait, unfinAtRet, invoked >>

\* defer l.mx.Unlock()
RegUnlock(a) ==
    /\ apc[a] = "written"
    /\ mx' = 0
    /\ apc' = [apc EXCEPT ![a] = "done"]
    /\ UNCHANGED << atmp, ctxv, setv, pkgv, cfg >>
    /\ UNCHANGED << kind, queue, pc, ctx, idx, errs, unit, outer, wg, outcome,
                    result, abandoned, qAt, finAtFire, obsAtFire,
                    errsAtWait, unfinAtRet, invoked >>

\* Concurrent Append calls, and one Close() somewhere among them.
InitReg ==
    /\ InitInst
    /\ InitPkgVars
    /\ InitRest
    /\ cfg = "reg"

NextReg ==
    \/ \E a \in Closers : RegLock(a)
    \/ \E a \in Closers : RegRead(a)
    \/ \E a \in Closers : RegWrite(a)
    \/ \E a \in Closers : RegUnlock(a)
    \/ \E k \in Callers : WalkBegin(k, "never")
    \/ \E k \in Callers : WalkIssue(k)
    \/ \E k \in Callers : WalkSelectNext(k)
    \/ \E k \in Callers : WalkReturn(k)
    \/ \E k \in Callers, c \in Closers, f \in BOOLEAN : UnitFinish(k, c, f)
    \/ \E k \in Callers, c \in Closers : UnitSignal(k, c)
    \/ \E k \in Callers : GroupBegin(k, "never")
    \/ \E k \in Callers : GroupSpawn(k)
    \/ \E k \in Callers, c \in Closers : OuterStart(k, c)
    \/ \E k \in Callers, c \in Closers : OuterSelectDone(k, c)
    \/ \E k \in Callers, c \in Closers, f \in BOOLEAN : InnerFinish(k, c, f)
    \/ \E k \in Callers : GroupWait(k)
    \/ \E k \in Callers : GroupReturn(k)

SpecReg == InitReg /\ [][NextReg]_vars

\* Concurrent Append calls and two Close() calls on one instance, the second
\* made once the first is under way.  What a Close returns plays no part in
\* who holds mx: here every Close returns nil.
InitGuard ==
    /\ InitInst
    /\ InitPkgVars
    /\ InitRest
    /\ cfg = "guard"

NextGuard ==
    \/ \E a \in Closers : RegLock(a)
    \/ \E a \in Closers : RegRead(a)
    \/ \E a \in Closers : RegWrite(a)
    \/ \E a \in Closers : RegUnlock(a)
    \/ \E k \in Callers : WalkBegin(k, "never")
    \/ \E k \in Callers : WalkIssue(k)
    \/ \E k \in Callers : WalkSelectNext(k)
    \/ \E k \in Callers : WalkReturn(k)
    \/ \E k \in Callers, c \in Closers : UnitFinish(k, c, FALSE)
    \/ \E k \in Callers, c \in Closers : UnitSignal(k, c)
    \/ \E k \in Callers : GroupBegin(k, "never")
    \/ \E k \in Callers : GroupSpawn(k)
    \/ \E k \in Callers, c \in Closers : OuterStart(k, c)
    \/ \E k \in Callers, c \in Closers : OuterSelectDone(k, c)
    \/ \E k \in Callers, c \in Closers : InnerFinish(k, c, FALSE)
    \/ \E k \in Callers : GroupWait(k)
    \/ \E k \in Callers : GroupReturn(k)

SpecGuard == InitGuard /\ [][NextGuard]_vars

\* ------------------------------------------------------ SetPackageClosure
MaxSets == 1

\* pkgClosure = c: the list the package functions work on from now on is
\* that of c, whatever the replaced strategy held.
InstalledListKeepOld(old, new) == old \o new
InstalledList(old, new) == new

\* SetPackageClosure(c): mu.Lock(); pkgClosure = c; mu.Unlock().  c is a new
\* Fifo or Lifo that holds n closers registered on it directly.  The
\* replaced strategy keeps its entries; nothing in the package refers to it
\* any more.
SetPackageClosure(kd, n) ==
    /\ cfg = "set"
    /\ mu = 0
    /\ nset < MaxSets
    /\ Len(queue) + Len(stash) + n <= MaxClosers
    /\ nset' = nset + 1
    /\ stash' = stash \o queue
    /\ kind' = kd
    /\ queue' = InstalledList(queue,
                    [i \in 1..n |-> Len(queue) + Len(stash) + i])
    /\ UNCHANGED << mx, pc, ctx, idx, errs, unit, outer, wg, outcome,
                    result, abandoned, qAt, finAtFire, obsAtFire,
                    errsAtWait, unfinAtRet, invoked >>
    /\ UNCHANGED << cfg, pkgv, ctxv, regv >>

\* Append, Close, CloseContext and SetPackageClosure of the package, from
\* two callers.
InitSet ==
    /\ InitInst
    /\ kind = "Lifo"
    /\ InitPkgVars
    /\ InitRest
    /\ cfg = "set"

NextSet ==
    \/ \E c \in Closers : PkgAppend(c)
    \/ \E kd \in {"Fifo", "Lifo"}, n \in {0, 1} : SetPackageClosure(kd, n)
    \/ \E p \in Callers, fn \in {"Close", "CloseContext"},
          c \in {"never", "armed", "fired"} : PkgCall(p, fn, c)
    \/ \E p \in Callers : PkgFire(p)
    \/ \E p \in Callers : PkgOnceDo(p)
    \/ \E p \in Callers : PkgOnceSkip(p)
    \/ \E p \in Callers : PkgOnceReturn(p)
    \/ WalkSteps

SpecSet == InitSet /\ [][NextSet]_vars

\* ================================================================ claims
\* The walk order of the list call k read, and a closer's place in it.
\* How often the close of resource c has been invoked, over all callers.
TotalInvoked(c) == invoked[1][c] + invoked[2][c]
WalkAt(k) == Walk(qAt[k])
PosIn(w, c) == CHOOSE p \in 1..Len(w) : w[p] = c
Returned(k) == pc[k] = "done"
NeverFired(k) == ctx[k] # "fired"
Issued(k, c) == unit[k][c] # "none"
Failed(k) == { c \in Closers : outcome[k][c] = "fail" }

\* C1: in a Fifo CloseContext whose signal has not fired, an entry's close
\* is issued only when every entry registered before it has been issued and
\* has finished: closes are issued in registration order, one at a time.
FifoOrdering ==
    \A k \in Callers :
        (kind = "Fifo" /\ NeverFired(k)) =>
            \A i, j \in 1..Len(qAt[k]) :
                (i < j /\ Issued(k, qAt[k][j])) => unit[k][qAt[k][i]] = "done"

FifoOrderingWitness ==
    \E k \in Callers :
        /\ kind = "Fifo" /\ Returned(k) /\ NeverFired(k)
        /\ Len(qAt[k]) >= 3
        /\ \A c \in Range(qAt[k]) : unit[k][c] = "done"

\* C2: in a Lifo CloseContext whose signal has not fired, an entry's close
\* is issued only when every entry registered after it has been issued and
\* has finished: the last-appended entry is first, then backwards.
LifoOrdering ==
    \A k \in Callers :
        (kind = "Lifo" /\ NeverFired(k)) =>
            \A i, j \in 1..Len(qAt[k]) :
                (i < j /\ Issued(k, qAt[k][i])) => unit[k][qAt[k][j]] = "done"

LifoOrderingWitness ==
    \E k \in Callers :
        /\ kind = "Lifo" /\ ~Returned(k) /\ NeverFired(k)
        /\ Len(qAt[k]) >= 3
        /\ unit[k][qAt[k][Len(qAt[k])]] = "done"
        /\ unit[k][qAt[k][2]] = "running"
        /\ unit[k][qAt[k][1]] = "none"

\* C3: when the signal did not fire, the value a strategy returns contains
\* the failure of every registered entry whose close failed, and it is nil
\* exactly when no registered entry's close failed.
AggregationComplete ==
    \A k \in Callers :
        (Returned(k) /\ NeverFired(k)) =>
            /\ \A c \in Range(qAt[k]) :
                   outcome[k][c] = "fail" => c \in Range(result[k])
            /\ result[k] = Nil <=> Range(qAt[k]) \cap Failed(k) = {}

AggregationCompleteWitness ==
    \E k \in Callers :
        /\ Returned(k) /\ NeverFired(k)
        /\ Cardinality(Failed(k)) >= 2
        /\ Cardinality(Range(qAt[k]) \ Failed(k)) >= 1
        /\ Len(result[k]) >= 2

\* C4: when the signal did not fire, a returned Fifo/Lifo walk has attempted
\* (and waited for) the close of every registered entry, whatever the
\* entries before it in walk order returned.
WalkSurvivesFailure ==
    \A k \in Callers :
        (Sequential /\ Returned(k) /\ NeverFired(k)) =>
            \A c \in Range(qAt[k]) : unit[k][c] = "done"

WalkSurvivesFailureWitness ==
    \E k \in Callers :
        /\ Sequential /\ Returned(k) /\ NeverFired(k)
        /\ Len(qAt[k]) >= 3
        /\ outcome[k][WalkAt(k)[1]] = "fail"
        /\ outcome[k][WalkAt(k)[2]] = "fail"
        /\ unit[k][WalkAt(k)[Len(qAt[k])]] = "done"

\* C5: when a Fifo/Lifo walk is abandoned because the signal fired, the
\* returned composite is the failures of the entries whose completion the
\* walk observed, in that order, followed by the signal's error.
ObservedFailures(k) ==
    SelectSeq(SubSeq(WalkAt(k), 1, idx[k]), LAMBDA c : outcome[k][c] = "fail")

CancelResultObservedOnly ==
    \A k \in Callers :
        (Sequential /\ Returned(k) /\ abandoned[k] # 0) =>
            result[k] = ObservedFailures(k) \o << CtxErr >>

\* C6: once a Fifo/Lifo walk has abandoned the wait on an entry, no entry
\* later in walk order has its close issued by that call, in any later state.
NoIssueAfterAbandon ==
    \A k \in Callers :
        (Sequential /\ abandoned[k] # 0) =>
            \A p \in 1..Len(qAt[k]) :
                p > PosIn(WalkAt(k), abandoned[k]) => ~Issued(k, WalkAt(k)[p])

NoIssueAfterAbandonWitness ==
    \E k \in Callers :
        /\ Sequential /\ abandoned[k] # 0
        /\ PosIn(WalkAt(k), abandoned[k]) = 1
        /\ Len(qAt[k]) >= 3
        /\ unit[k][abandoned[k]] = "done"

\* C7 as stated: with three entries in walk order X1, X2, X3, X1 and X2
\* finished when the deadline fired and X3 not, a walk that returned on the
\* deadline attempted X1 and X2, never invoked X3's close, and returned a
\* composite holding the deadline error.
ShortCircuitSkipsThird ==
    \A k \in Callers :
        (/\ Sequential /\ Returned(k) /\ abandoned[k] # 0
         /\ Len(qAt[k]) = 3
         /\ finAtFire[k] = { WalkAt(k)[1], WalkAt(k)[2] }) =>
            /\ Issued(k, WalkAt(k)[1])
            /\ Issued(k, WalkAt(k)[2])
            /\ ~Issued(k, WalkAt(k)[3])
            /\ CtxErr \in Range(result[k])

\* C7 as amended: with three entries in walk order X1, X2, X3, when the walk
\* had observed X1 and X2 finish before the deadline fired and returned on
\* the deadline, all three closes were issued (X3's close is invoked, only
\* its completion is not waited for), the abandoned wait is the one on X3,
\* and the returned composite ends with the deadline error.
ShortCircuitIssuesThird ==
    \A k \in Callers :
        (/\ Sequential /\ Returned(k) /\ abandoned[k] # 0
         /\ Len(qAt[k]) = 3
         /\ obsAtFire[k] = 2) =>
            /\ \A c \in Range(qAt[k]) : Issued(k, c)
            /\ abandoned[k] = WalkAt(k)[3]
            /\ result[k] # Nil /\ Last(result[k]) = CtxErr

ShortCircuitIssuesThirdWitness ==
    \E k \in Callers :
        /\ Sequential /\ Returned(k) /\ abandoned[k] # 0
        /\ Len(qAt[k]) = 3
        /\ obsAtFire[k] = 2
        /\ finAtFire[k] = { WalkAt(k)[1], WalkAt(k)[2] }
        /\ unit[k][WalkAt(k)[3]] = "running"

\* C8: the value Group.CloseContext returns never contains the signal's
\* error, and it is nil when the signal fired and no unit has recorded a
\* failure.
GroupOmitsCtxErr ==
    \A k \in Callers :
        (kind = "Group" /\ Returned(k)) =>
            /\ CtxErr \notin Range(result[k])
            /\ (ctx[k] = "fired" /\ Failed(k) = {}) => result[k] = Nil

GroupOmitsCtxErrWitness ==
    \E k \in Callers :
        /\ kind = "Group" /\ Returned(k)
        /\ ctx[k] = "fired"
        /\ \E c \in Range(qAt[k]) : c \in unfinAtRet[k] /\ unit[k][c] = "running"
        /\ Failed(k) = {}
        /\ result[k] = Nil

\* C9: Group's loop starts a goroutine per entry without waiting for
\* anything, each started goroutine can issue its entry's close whatever the
\* other entries' closes are doing, and by the time the call combines its
\* result the close of every registered entry has been issued.
GroupFanOut ==
    \A k \in Callers :
        /\ (kind = "Group" /\ pc[k] = "spawn" /\ idx[k] < Len(queue)) =>
               ENABLED GroupSpawn(k)
        /\ \A c \in Closers : outer[k][c] = "spawned" => ENABLED OuterStart(k, c)
        /\ (kind = "Group" /\ pc[k] \in {"combine", "done"}) =>
               \A c \in Range(qAt[k]) : Issued(k, c)

GroupFanOutWitness ==
    \E k \in Callers :
        /\ kind = "Group" /\ Returned(k)
        /\ Len(qAt[k]) >= 3
        /\ obsAtFire[k] = 0 /\ finAtFire[k] = {}
        /\ unit[k][qAt[k][1]] = "running"
        /\ \A c \in Range(qAt[k]) : Issued(k, c)
        /\ \E c \in Range(qAt[k]) : unit[k][c] = "done"

\* C10 as stated: the aggregate Group.CloseContext returns holds only
\* failures recorded before wg.Wait returned, and never the failure of a
\* unit whose close finished after the signal fired.
GroupExcludesLateFailures ==
    \A k \in Callers :
        (kind = "Group" /\ Returned(k)) =>
            /\ Range(result[k]) \subseteq Range(errsAtWait[k])
            /\ ctx[k] = "fired" => Range(result[k]) \subseteq finAtFire[k]

\* C10 as amended: the aggregate holds every failure recorded before wg.Wait
\* returned and only failures recorded before the call read the buffer to
\* return; a unit that finishes after the signal fired is in it when it
\* recorded before that read, and the failure of a unit whose close was
\* still running when the call returned is never part of it.
GroupAggregateUpToReturn ==
    \A k \in Callers :
        (kind = "Group" /\ Returned(k)) =>
            /\ Range(errsAtWait[k]) \subseteq Range(result[k])
            /\ Range(result[k]) \subseteq Failed(k)
            /\ Range(result[k]) \cap unfinAtRet[k] = {}

GroupAggregateUpToReturnWitness ==
    \E k \in Callers :
        /\ kind = "Group" /\ Returned(k) /\ ctx[k] = "fired"
        /\ \E c \in Range(result[k]) : c \notin finAtFire[k]
        /\ \E c \in unfinAtRet[k] : outcome[k][c] = "fail"
        /\ errsAtWait[k] # Nil
\* C14: a CloseContext call that found no registered entry starts no
\* goroutine and invokes no close, and it returns nil, whether or not its
\* context had fired.
EmptyStrategyClose ==
    \A k \in Callers :
        (pc[k] # "idle" /\ qAt[k] = << >>) =>
            /\ \A c \in Closers :
                   /\ unit[k][c] = "none"
                   /\ outer[k][c] = "none"
                   /\ invoked[k][c] = 0
            /\ Returned(k) => result[k] = Nil

EmptyStrategyCloseWitness ==
    \E k \in Callers :
        /\ Returned(k)
        /\ qAt[k] = << >>
        /\ ctx[k] = "fired"
        /\ result[k] = Nil

\* C15: within one CloseContext call no entry's close is invoked more than
\* once, and when the call has returned and its context has not fired, the
\* close of every registered entry has been invoked exactly once and has
\* returned.
ExactlyOncePerCall ==
    \A k \in Callers :
        /\ \A c \in Closers : invoked[k][c] <= 1
        /\ (Returned(k) /\ NeverFired(k)) =>
               \A c \in Range(qAt[k]) :
                   /\ invoked[k][c] = 1
                   /\ unit[k][c] \in {"finished", "done"}
                   /\ outcome[k][c] \in {"ok", "fail"}

ExactlyOncePerCallWitness ==
    \E k \in Callers :
        /\ kind = "Group"
        /\ Returned(k)
        /\ ctx[k] = "armed"
        /\ Len(qAt[k]) = 3
        /\ \A c \in Range(qAt[k]) : invoked[k][c] = 1 /\ unit[k][c] # "running"

\* C16: once the context of a CloseContext call has fired, the call
\* eventually returns, whether or not the closes it issued ever return.
BoundedWait ==
    \A k \in LiveCallers :
        (pc[k] # "idle" /\ ctx[k] = "fired") ~> (pc[k] = "done")

\* The call has returned on a fired context while a close it issued has
\* still not returned.
BoundedWaitWitness ==
    \E k \in LiveCallers :
        /\ Returned(k)
        /\ ctx[k] = "fired"
        /\ \E c \in Range(qAt[k]) : unit[k][c] = "running"

\* The goroutine calling c.Close() for call k can take the step in which
\* Close returns.
CanFinish(k, c) ==
    \E f \in BOOLEAN : ENABLED (UnitFinish(k, c, f) \/ InnerFinish(k, c, f))

\* C17: a close that has been issued stops running only by returning, never
\* because the context fired or the call returned; and a close still in
\* flight after CloseContext has returned is free to return.
NoPreemption ==
    /\ [][\A k \in Callers, c \in Closers :
              unit[k][c] = "running" =>
                  unit'[k][c] \in {"running", "finished"}]_vars
    /\ [](\A k \in Callers, c \in Closers :
              unit[k][c] = "running" => CanFinish(k, c))

\* A close in flight when the call returned on the fired context has since
\* returned and its outcome is known.
NoPreemptionWitness ==
    \E k \in Callers, c \in Closers :
        /\ Returned(k)
        /\ ctx[k] = "fired"
        /\ c \in unfinAtRet[k]
        /\ unit[k][c] \in {"finished", "done"}
        /\ outcome[k][c] = "fail"

IsPrefix(a, b) == Len(a) <= Len(b) /\ a = SubSeq(b, 1, Len(a))

\* C18: no step of a Close / CloseContext call changes the registration
\* list, which only grows at its end by Append; so the list the first call
\* walked is the beginning of the list the second call walks, and a second
\* call whose context has not fired invokes the close of every entry again.
CloseKeepsList ==
    /\ [][queue' # queue =>
              /\ \E c \in Closers : queue' = Append(queue, c)
              /\ pc' = pc /\ unit' = unit /\ outer' = outer]_vars
    /\ [](\A k \in Callers : pc[k] # "idle" => IsPrefix(qAt[k], queue))
    /\ [](pc[2] # "idle" => IsPrefix(qAt[1], qAt[2]))
    /\ []((Returned(2) /\ NeverFired(2)) =>
              \A c \in Range(qAt[1]) :
                  /\ invoked[2][c] = 1
                  /\ invoked[1][c] = 1 => TotalInvoked(c) = 2)

CloseKeepsListWitness ==
    /\ Returned(1) /\ Returned(2)
    /\ NeverFired(1) /\ NeverFired(2)
    /\ Len(queue) = 3
    /\ qAt[1] = queue /\ qAt[2] = queue
    /\ \A c \in Range(queue) : invoked[1][c] = 1 /\ invoked[2][c] = 1

\* C19: under any interleaving of Append calls (and a Close) no registration
\* is lost or duplicated: the list holds exactly the closers whose Append
\* has stored, each once; and the list changes only by an Append putting its
\* closer after everything that is in it, so entries never move.
ConcurrentAppendSafe ==
    /\ [](\A i, j \in 1..Len(queue) : queue[i] = queue[j] => i = j)
    /\ [](Range(queue) = { a \in Closers : apc[a] \in {"written", "done"} })
    /\ [][queue' # queue =>
              \E a \in Closers :
                  /\ apc[a] = "read"
                  /\ mx = 0 - a
                  /\ queue' = Append(queue, a)]_vars

\* Three Append calls done in an order other than their numbering, a Close
\* having run when only the first of them had registered.
ConcurrentAppendSafeWitness ==
    /\ \A a \in Closers : a <= 3 => apc[a] = "done"
    /\ SubSeq(queue, 1, 3) = << 2, 3, 1 >>
    /\ Returned(1)
    /\ qAt[1] = << 2 >>

\* Caller k is inside CloseContext; goroutine a is inside Append.
Walking(k) == pc[k] \notin {"idle", "done"}
Appending(a) == apc[a] \in {"locked", "read", "written"}

\* C21: while a Fifo or Lifo CloseContext call is walking it holds mx: no
\* Append is inside its critical section, no other call is walking, and no
\* step changes the list or moves another caller or an Append; so the call
\* has closed exactly the entries whose Append finished before it began.
GuardHeldForWalk ==
    /\ [](\A k \in Callers :
              (Sequential /\ Walking(k)) =>
                  /\ mx = k
                  /\ queue = qAt[k]
                  /\ \A a \in Closers : ~Appending(a)
                  /\ \A j \in Callers \ {k} : ~Walking(j))
    /\ [][\A k \in Callers :
              (Sequential /\ Walking(k) /\ pc'[k] # "done") =>
                  /\ queue' = queue
                  /\ apc' = apc
                  /\ \A j \in Callers \ {k} : pc'[j] = pc[j]]_vars
    /\ [](\A k \in Callers :
              (Sequential /\ Returned(k)) =>
                  \A a \in Closers :
                      a \in Range(qAt[k]) <=> invoked[k][a] = 1)

\* An Append before the first walk, one between the two walks, one after.
GuardHeldForWalkWitness ==
    /\ kind = "Lifo"
    /\ Returned(1) /\ Returned(2)
    /\ Len(qAt[1]) = 1 /\ Len(qAt[2]) = 2 /\ Len(queue) = 3
    /\ invoked[1][queue[2]] = 0 /\ invoked[2][queue[2]] = 1
    /\ invoked[2][queue[3]] = 0

\* Group's CloseContext has started every goroutine and is blocked in
\* wg.Wait().
GroupWaiting(k) ==
    /\ kind = "Group"
    /\ pc[k] = "spawn"
    /\ idx[k] = Len(qAt[k])
    /\ wg[k] > 0

\* C22 as stated: Group does not hold the guard of the list while it waits
\* for its units, so an Append can enter then.
GroupGuardNotHeldInWait ==
    \A k \in Callers :
        GroupWaiting(k) =>
            /\ mx # k
            /\ \A a \in Closers : apc[a] = "idle" => ENABLED RegLock(a)

\* C22 (amended): Group holds the guard of the list for the whole of
\* CloseContext, the wait for its units included: while the call is under
\* way no Append is inside its critical section or can enter it and the list
\* does not change; an Append issued meanwhile completes after the call has
\* returned.
GroupGuardHeldForCall ==
    /\ [](\A k \in Callers :
              (kind = "Group" /\ Walking(k)) =>
                  /\ mx = k
                  /\ queue = qAt[k]
                  /\ \A a \in Closers : ~Appending(a) /\ ~ENABLED RegLock(a)
                  /\ \A j \in Callers \ {k} : ~Walking(j))
    /\ [][\A k \in Callers :
              (kind = "Group" /\ Walking(k) /\ pc'[k] # "done") =>
                  queue' = queue /\ apc' = apc]_vars

\* A Group call waiting for a Close that has not returned while a closer is
\* still to be registered.
GroupGuardHeldForCallWitness ==
    \E k \in Callers, a \in Closers :
        /\ GroupWaiting(k)
        /\ Len(qAt[k]) >= 1
        /\ \E c \in Range(qAt[k]) : unit[k][c] = "running"
        /\ apc[a] = "idle"
        /\ mx = k

\* C23: the error buffer is never written by a close unit at a moment when
\* the orchestrator can read it to build its return value: the write of a
\* failure (callClose, Group's append to errs) and that read (Fifo/Lifo on
\* cancellation, Group's Combine) exclude each other.
ErrsBufferGuarded ==
    \A k \in Callers, c \in Closers :
        /\ ~(ENABLED WalkSelectCtx(k) /\ ENABLED UnitFinish(k, c, TRUE))
        /\ ~(ENABLED GroupReturn(k) /\ ENABLED InnerFinish(k, c, TRUE))

\* The entries of list w whose close failed in call k, in the order of w.
FailuresIn(k, w) == SelectSeq(w, LAMBDA c : outcome[k][c] = "fail")

\* C24 as stated: with no cancellation the composite a Fifo or a Lifo
\* returns lists the failures in registration order of the failing entries.
CompositeInRegistrationOrder ==
    \A k \in Callers :
        (Sequential /\ Returned(k) /\ NeverFired(k)) =>
            result[k] = FailuresIn(k, qAt[k])

\* C24 (amended): with no cancellation the composite lists the failures in
\* the order in which they were observed, the walk order: registration
\* order for Fifo, reverse registration order for Lifo.
CompositeInWalkOrder ==
    \A k \in Callers :
        (Sequential /\ Returned(k) /\ NeverFired(k)) =>
            /\ result[k] = FailuresIn(k, WalkAt(k))
            /\ kind = "Fifo" => result[k] = FailuresIn(k, qAt[k])
            /\ kind = "Lifo" => result[k] = Reverse(FailuresIn(k, qAt[k]))

CompositeInWalkOrderWitness ==
    \E k \in Callers :
        /\ kind = "Lifo"
        /\ Returned(k) /\ NeverFired(k)
        /\ qAt[k] = << 1, 2, 3 >>
        /\ result[k] = << 3, 1 >>

\* The closers whose close call k has issued.
IssuedSet(k) == { c \in Closers : invoked[k][c] > 0 }

\* C28: a Fifo/Lifo walk issues an entry's close before it looks at the
\* context: a call on a non-empty list that has got past its first iteration
\* has issued the first entry in walk order, also when its context had fired
\* before the call; and at any time the issued entries are the first n in
\* walk order, where the completion of all but the last of them has been
\* observed: none is skipped and none is issued before its predecessor's
\* completion was observed.
DispatchBeforeSignal ==
    \A k \in Callers :
        (Sequential /\ pc[k] # "idle") =>
            /\ (pc[k] # "loop" /\ qAt[k] # << >>) =>
                   invoked[k][WalkAt(k)[1]] = 1
            /\ \E n \in {idx[k], idx[k] + 1} :
                   /\ n <= Len(qAt[k])
                   /\ IssuedSet(k) = Range(SubSeq(WalkAt(k), 1, n))
            /\ \A i \in 1..Len(qAt[k]) :
                   WalkAt(k)[i] \in IssuedSet(k) =>
                       \A j \in 1..(i - 1) : unit[k][WalkAt(k)[j]] = "done"

\* A call made with a fired context on three entries has returned having
\* issued the first entry in walk order and no other.
DispatchBeforeSignalWitness ==
    \E k \in Callers :
        /\ kind = "Lifo"
        /\ Returned(k)
        /\ obsAtFire[k] = 0
        /\ qAt[k] = << 1, 2, 3 >>
        /\ IssuedSet(k) = {3}
        /\ abandoned[k] = 3
        /\ Last(result[k]) = CtxErr

\* ------------------------------------------------- package-level claims
PkgReturned(p) == ppc[p] = "done"
\* Caller p's package call is the one whose once.Do ran the strategy.
RanStrategy(p) == pc[p] # "idle"

\* C11 as stated: once the package call that ran the default strategy has
\* returned, every resource that was registered when it ran has had its
\* close invoked exactly once in total.
OnceExactlyOnceInTotal ==
    \A p \in Callers :
        (PkgReturned(p) /\ RanStrategy(p)) =>
            \A c \in Range(qAt[p]) : TotalInvoked(c) = 1

\* C11 (amended): over any package-level Close / CloseContext calls the
\* default strategy's CloseContext is executed by at most one of them and no
\* resource's close is invoked more than once in total; a resource registered
\* before that execution is invoked exactly once when the signal of the
\* executing call never fires.
OnceAtMostOnceInTotal ==
    /\ Cardinality({ p \in Callers : RanStrategy(p) }) <= 1
    /\ \A c \in Closers : TotalInvoked(c) <= 1
    /\ \A p \in Callers :
           (PkgReturned(p) /\ RanStrategy(p) /\ NeverFired(p)) =>
               \A c \in Range(qAt[p]) : TotalInvoked(c) = 1

OnceAtMostOnceInTotalWitness ==
    \E p, q \in Callers :
        /\ p # q
        /\ PkgReturned(p) /\ RanStrategy(p) /\ NeverFired(p)
        /\ PkgReturned(q) /\ ~RanStrategy(q)
        /\ pfn[q] \in {"Close", "CloseContext"}
        /\ Len(qAt[p]) >= 2
        /\ \A c \in Range(qAt[p]) : TotalInvoked(c) = 1

\* C12: every package-level Close / CloseContext call that returns without
\* having run the strategy returns the same outcome value as the call that
\* ran it.
LateCallersSameOutcome ==
    \A p, q \in Callers :
        (/\ PkgReturned(p) /\ RanStrategy(p)
         /\ PkgReturned(q) /\ ~RanStrategy(q)) =>
            pres[q] = pres[p]

\* Caller p's CloseOnSignal / CloseOnSignalContext has left its wait and
\* gone on to the package close.
PastWait(p) == ppc[p] \in {"lock", "once", "done"}

\* C20: CloseOnSignal goes on to the package close, and so to any close of
\* the registry, only after a watched signal was delivered to it and reported
\* through the logger; CloseOnSignalContext only after that or after its
\* context fired, reported likewise; and each returns what that package close
\* returned.
CloseOnSignalOrdering ==
    \A p \in Callers :
        pfn[p] \in {"CloseOnSignal", "CloseOnSignalContext"} =>
            /\ (PastWait(p) \/ RanStrategy(p)
                    \/ \E c \in Closers : invoked[p][c] > 0) =>
                   /\ plog[p] # "none"
                   /\ plog[p] = "signal" => sig[p]
                   /\ plog[p] = "ctx" =>
                          /\ pfn[p] = "CloseOnSignalContext"
                          /\ pctx[p] = "fired"
            /\ PkgReturned(p) =>
                   pres[p] = IF RanStrategy(p) THEN result[p] ELSE Nil

\* One caller's CloseOnSignal has closed the registry after the signal and
\* returned its failure; the other's CloseOnSignalContext was released by
\* its context.
CloseOnSignalOrderingWitness ==
    \E p, q \in Callers :
        /\ pfn[p] = "CloseOnSignal" /\ PkgReturned(p)
        /\ sig[p] /\ plog[p] = "signal"
        /\ RanStrategy(p) /\ pres[p] = result[p] /\ pres[p] # Nil
        /\ \E c \in Closers : invoked[p][c] = 1
        /\ pfn[q] = "CloseOnSignalContext" /\ PkgReturned(q)
        /\ plog[q] = "ctx" /\ ~sig[q]

OthersCanEnter(p) ==
    \/ \E c \in Closers : ENABLED PkgAppend(c)
    \/ \E kd \in {"Fifo", "Lifo"}, n \in {0, 1} :
           ENABLED SetPackageClosure(kd, n)
    \/ \E q \in Callers \ {p} : ENABLED PkgOnceDo(q) \/ ENABLED PkgOnceSkip(q)

\* C27: from the moment the first package-level CloseContext has mu until
\* the strategy's close has returned, mu is its own: no Append, no
\* SetPackageClosure and no other Close / CloseContext can get past
\* mu.Lock(), the installed strategy and its list stay as they are and no
\* other caller returns; a caller that did not run the close has returned
\* only if the one that did has returned.
PkgMutexHeldForClose ==
    /\ [](\A p \in Callers :
              ppc[p] = "once" =>
                  /\ mu = p
                  /\ ~OthersCanEnter(p)
                  /\ \A q \in Callers \ {p} : ppc[q] \in {"idle", "lock"})
    /\ [][\A p \in Callers :
              (ppc[p] = "once" /\ ppc'[p] = "once") =>
                  /\ queue' = queue /\ kind' = kind /\ nset' = nset
                  /\ \A q \in Callers \ {p} : ppc'[q] # "done"]_vars
    /\ [](\A q \in Callers :
              (PkgReturned(q) /\ ~RanStrategy(q)) =>
                  \E p \in Callers \ {q} :
                      RanStrategy(p) /\ Returned(p) /\ PkgReturned(p))

\* The first caller's close is waiting for a Close that has not returned
\* while the second caller waits for mu.
PkgMutexHeldForCloseWitness ==
    \E p, q \in Callers :
        /\ p # q
        /\ ppc[p] = "once" /\ pc[p] = "select"
        /\ \E c \in Range(qAt[p]) : unit[p][c] = "running"
        /\ ppc[q] = "lock"
        /\ Len(queue) < MaxClosers

\* ------------------------------------------------------ context claims
\* The layers of ch put there by ClosureToContext.
Attaches(ch) == { i \in 1..Len(ch) : ch[i].key = "ctxKey" }
LastAttach(ch) == CHOOSE i \in Attaches(ch) : \A j \in Attaches(ch) : j <= i

\* C13: ClosureFromContext on a context whose latest attachment is strategy
\* instance s, however many descendants were derived after it, returns
\* (s, true) with s that very instance; on a context with no attachment it
\* returns (nil, false).
ContextRoundTrip ==
    got # NoLookup =>
        /\ Attaches(got.on) = {} => got.res = << NilClosure, FALSE >>
        /\ (/\ Attaches(got.on) # {}
            /\ got.on[LastAttach(got.on)].val \in Instances) =>
               got.res = << got.on[LastAttach(got.on)].val, TRUE >>

ContextRoundTripWitness ==
    /\ got # NoLookup
    /\ Len(got.on) = 3
    /\ Attaches(got.on) = {1, 2}
    /\ got.on[1].val = << "Group", 1 >>
    /\ got.on[2].val = << "Group", 2 >>
    /\ got.on[3].key = "other"
    /\ got.res = << << "Group", 2 >>, TRUE >>

====
